---- MODULE Spec2Model ----
(***************************************************************************)
(* A stack virtual machine interpreted twice: by the switch-based loop of  *)
(* switched.c and by the table-indexed (computed goto) loop of threaded.c. *)
(* Both machines are run on the same program image, step limit and rand()  *)
(* stream, the switched one first and the threaded one after it.           *)
(***************************************************************************)
EXTENDS Integers, Sequences, FiniteSets, TLC

(***************************************************************************)
(* 32-bit words.  uint32_t values are kept as two 16-bit halves <<hi, lo>> *)
(* so that every operation is exact modulo 2^32.                           *)
(***************************************************************************)
Half == 65536

U(n) == <<n \div Half, n % Half>>

S(n) == IF n >= 0 THEN U(n)
        ELSE <<(Half - 1) - ((-n - 1) \div Half), (Half - 1) - ((-n - 1) % Half)>>

Add32(a, b) ==
    LET lo == a[2] + b[2]
        hi == a[1] + b[1] + (lo \div Half)
    IN  <<hi % Half, lo % Half>>

Sub32(a, b) ==
    LET lo == a[2] - b[2]
        borrow == IF lo < 0 THEN 1 ELSE 0
        hi == a[1] - b[1] - borrow
    IN  <<(hi + Half) % Half, (lo + Half) % Half>>

\* x * y for two 16-bit halves, as the exact 32-bit product <<hi, lo>>
Mul16(x, y) ==
    LET p0 == (x % 256) * y
        p1 == (x \div 256) * y
        low == p0 + (p1 % 256) * 256
    IN  <<(low \div Half) + (p1 \div 256), low % Half>>

Mul32(a, b) ==
    LET p == Mul16(a[2], b[2])
    IN  <<(p[1] + Mul16(a[1], b[2])[2] + Mul16(a[2], b[1])[2]) % Half, p[2]>>

Bit32(a, i) == IF i >= 16 THEN (a[1] \div (2 ^ (i - 16))) % 2
                          ELSE (a[2] \div (2 ^ i)) % 2

GeW(x, b) == x[1] > b[1] \/ (x[1] = b[1] /\ x[2] >= b[2])

\* one step of binary long division: shift the next bit of the dividend into
\* the partial remainder r (r < b) and subtract the divisor when it fits
RemStep(r, bit, b) ==
    LET lo == 2 * r[2] + bit
        sh == <<2 * r[1] + (lo \div Half), lo % Half>>
    IN  IF GeW(sh, b)
        THEN LET l2 == sh[2] - b[2]
                 bw == IF l2 < 0 THEN 1 ELSE 0
             IN  <<sh[1] - b[1] - bw, (l2 + Half) % Half>>
        ELSE sh

RECURSIVE RemBits(_, _, _, _)
RemBits(a, b, i, r) ==
    IF i < 0 THEN r
    ELSE LET nx == RemStep(r, Bit32(a, i), b)
         IN  IF nx[1] >= 0 THEN RemBits(a, b, i - 1, nx) ELSE nx

\* the unsigned remainder a % b of two uint32_t values, b /= 0
Rem32(a, b) ==
    IF b[1] = 0 /\ b[2] < 32768
    THEN <<0, (((a[1] % b[2]) * Half) + a[2]) % b[2]>>
    ELSE RemBits(a, b, 31, <<0, 0>>)

\* printf("%d") of a uint32_t: the value read as a signed 32-bit integer
Fmt_d(w) == IF w[1] >= 32768 THEN <<"-", Sub32(<<0, 0>>, w)>> ELSE <<"", w>>

(***************************************************************************)
(* common.h is not among the sources.  The opcode numbering is the order   *)
(* of the service_routines table of threaded.c; the two capacities are     *)
(* those of the upstream header.                                           *)
(***************************************************************************)
PROGRAM_SIZE == 512
STACK_CAPACITY == 32

Instr_Break == <<0, 0>>
Instr_Nop == <<0, 1>>
Instr_Halt == <<0, 2>>
Instr_Push == <<0, 3>>
Instr_Print == <<0, 4>>
Instr_JNE == <<0, 5>>
Instr_Swap == <<0, 6>>
Instr_Dup == <<0, 7>>
Instr_JE == <<0, 8>>
Instr_Inc == <<0, 9>>
Instr_Add == <<0, 10>>
Instr_Sub == <<0, 11>>
Instr_Mul == <<0, 12>>
Instr_Rand == <<0, 13>>
Instr_Dec == <<0, 14>>
Instr_Drop == <<0, 15>>
Instr_Over == <<0, 16>>
Instr_Mod == <<0, 17>>
Instr_Jump == <<0, 18>>

Cpu_Running == "Running"
Cpu_Halted == "Halted"
Cpu_Break == "Break"

One == <<0, 1>>
Zero == <<0, 0>>

\* the default step limit: LLONG_MAX of the source, here the largest integer
\* TLC represents (steps stays below MaxSteps, far from either)
LLONG_MAX == 2147483647

\* rand() yields a value in 0 .. RAND_MAX
RandVals == {Zero, <<32767, 65535>>}

VARIABLES
    pmem,       \* the program image: [head, tail], zero-filled in between
    steplimit,  \* the step limit both runs are given
    rands,      \* the values rand() has returned so far, in call order
    cpuS,       \* switched.c: cpu
    outS,       \* switched.c: the lines written to stdout
    logS,       \* switched.c: the operations of the last loop iteration
    posS,       \* switched.c: position of main
    nrandS,     \* switched.c: number of rand() calls made
    exitS,      \* switched.c: exit status of the process, -1 while running
    cpuT,       \* threaded.c: cpu
    decodedT,   \* threaded.c: decoded
    outT,       \* threaded.c: the lines written to stdout
    logT,       \* threaded.c: the operations of the last service routine
    posT,       \* threaded.c: position of main (the label control is at)
    nrandT,     \* threaded.c: number of rand() calls made
    exitT       \* threaded.c: exit status of the process, -1 while running

vars == <<pmem, steplimit, rands, cpuS, outS, logS, posS, nrandS, exitS,
          cpuT, decodedT, outT, logT, posT, nrandT, exitT>>

\* const Instr_t X[PROGRAM_SIZE] = {...}: the words given, then zeros; tail
\* holds the last words of the array when they are given too
Mem(i) ==
    IF i < Len(pmem.head) THEN pmem.head[i + 1]
    ELSE IF i >= PROGRAM_SIZE - Len(pmem.tail)
         THEN pmem.tail[i - (PROGRAM_SIZE - Len(pmem.tail)) + 1]
         ELSE Zero

\* uint32_t pc compared with PROGRAM_SIZE
InProgram(pc) == pc[1] = 0 /\ pc[2] < PROGRAM_SIZE

\* cpu_t cpu = {.pc = 0, .sp = -1, .state = Cpu_Running, .steps = 0, .stack = {0}}
cpu_init ==
    [pc |-> Zero, sp |-> -1, state |-> Cpu_Running, steps |-> 0,
     stack |-> [i \in 0 .. STACK_CAPACITY - 1 |-> Zero]]

\* a line written by printf
Line(kind, text, val) == [kind |-> kind, text |-> text, val |-> val]
Diag(text) == Line("diag", text, <<"", Zero>>)

\* the record of one operation on the machine: what was done, the word it
\* concerned, the index it used, and the cpu after it
Log(m, op, w, idx) ==
    [m EXCEPT !.log = Append(@, [op |-> op, w |-> w, idx |-> idx, cpu |-> m.cpu])]

Say(m, line) == [m EXCEPT !.out = Append(@, line)]

fetch(m) ==
    IF InProgram(m.cpu.pc)
    THEN [m |-> Log(m, "fetch", Mem(m.cpu.pc[2]), m.cpu.pc[2]), raw |-> Mem(m.cpu.pc[2])]
    ELSE [m |-> Log(m, "fetch_assert", Zero, -1), raw |-> Zero]

\* fetch_checked whose bound test lets pc == PROGRAM_SIZE through
fetch_checked_off_by_one(m) ==
    IF ~(InProgram(m.cpu.pc) \/ m.cpu.pc = U(PROGRAM_SIZE))
    THEN [m |-> Log([Say(m, Diag("PC out of bounds")) EXCEPT !.cpu.state = Cpu_Break],
                    "pc_oob", Zero, -1),
          raw |-> Instr_Break]
    ELSE fetch(m)

fetch_checked(m) ==
    IF ~InProgram(m.cpu.pc)
    THEN [m |-> Log([Say(m, Diag("PC out of bounds")) EXCEPT !.cpu.state = Cpu_Break],
                    "pc_oob", Zero, -1),
          raw |-> Instr_Break]
    ELSE fetch(m)

OneWord == {Instr_Nop, Instr_Halt, Instr_Print, Instr_Swap, Instr_Dup, Instr_Inc,
            Instr_Add, Instr_Sub, Instr_Mul, Instr_Rand, Instr_Dec, Instr_Drop,
            Instr_Over, Instr_Mod}
TwoWord == {Instr_Push, Instr_JNE, Instr_JE, Instr_Jump}

\* decode whose default case keeps the raw word as the opcode
decode_keeps_raw(m, raw_instr) ==
    IF raw_instr \in OneWord
    THEN [m |-> m, d |-> [opcode |-> raw_instr, length |-> 1, immediate |-> Zero]]
    ELSE IF raw_instr \in TwoWord
    THEN LET pc1 == Add32(m.cpu.pc, One)
         IN  IF ~InProgram(pc1)
             THEN [m |-> Log(Say(m, Diag("PC+1 out of bounds")), "truncated", raw_instr, -1),
                   d |-> [opcode |-> Instr_Break, length |-> 1, immediate |-> Zero]]
             ELSE [m |-> Log(m, "imm", Mem(pc1[2]), pc1[2]),
                   d |-> [opcode |-> raw_instr, length |-> 2, immediate |-> Mem(pc1[2])]]
    ELSE [m |-> m, d |-> [opcode |-> raw_instr, length |-> 1, immediate |-> Zero]]

\* decode that reports the missing immediate but keeps the opcode
decode_truncated_keeps_opcode(m, raw_instr) ==
    IF raw_instr \in OneWord
    THEN [m |-> m, d |-> [opcode |-> raw_instr, length |-> 1, immediate |-> Zero]]
    ELSE IF raw_instr \in TwoWord
    THEN LET pc1 == Add32(m.cpu.pc, One)
         IN  IF ~InProgram(pc1)
             THEN [m |-> Log(Say(m, Diag("PC+1 out of bounds")), "truncated", raw_instr, -1),
                   d |-> [opcode |-> raw_instr, length |-> 1, immediate |-> Zero]]
             ELSE [m |-> Log(m, "imm", Mem(pc1[2]), pc1[2]),
                   d |-> [opcode |-> raw_instr, length |-> 2, immediate |-> Mem(pc1[2])]]
    ELSE [m |-> m, d |-> [opcode |-> Instr_Break, length |-> 1, immediate |-> Zero]]

decode(m, raw_instr) ==
    IF raw_instr \in OneWord
    THEN [m |-> m, d |-> [opcode |-> raw_instr, length |-> 1, immediate |-> Zero]]
    ELSE IF raw_instr \in TwoWord
    THEN LET pc1 == Add32(m.cpu.pc, One)
         IN  IF ~InProgram(pc1)
             THEN [m |-> Log(Say(m, Diag("PC+1 out of bounds")), "truncated", raw_instr, -1),
                   d |-> [opcode |-> Instr_Break, length |-> 1, immediate |-> Zero]]
             ELSE [m |-> Log(m, "imm", Mem(pc1[2]), pc1[2]),
                   d |-> [opcode |-> raw_instr, length |-> 2, immediate |-> Mem(pc1[2])]]
    ELSE [m |-> m, d |-> [opcode |-> Instr_Break, length |-> 1, immediate |-> Zero]]

\* push with the capacity test off by one
push_off_by_one(m, v) ==
    IF m.cpu.sp >= STACK_CAPACITY
    THEN Log([Say(m, Diag("Stack overflow")) EXCEPT !.cpu.state = Cpu_Break],
             "push_overflow", v, -1)
    ELSE Log([m EXCEPT !.cpu.sp = @ + 1,
                       !.cpu.stack = [i \in DOMAIN @ \cup {m.cpu.sp + 1} |->
                                        IF i = m.cpu.sp + 1 THEN v ELSE @[i]]],
             "push", v, m.cpu.sp + 1)

push(m, v) ==
    IF m.cpu.sp >= STACK_CAPACITY - 1
    THEN Log([Say(m, Diag("Stack overflow")) EXCEPT !.cpu.state = Cpu_Break],
             "push_overflow", v, -1)
    ELSE Log([m EXCEPT !.cpu.sp = @ + 1, !.cpu.stack[m.cpu.sp + 1] = v],
             "push", v, m.cpu.sp + 1)

\* pop that reports the underflow but leaves the state alone
pop_keeps_state(m) ==
    IF m.cpu.sp < 0
    THEN [m |-> Log(Say(m, Diag("Stack underflow")), "pop_underflow", Zero, -1),
          ret |-> Zero]
    ELSE LET v == m.cpu.stack[m.cpu.sp]
         IN  [m |-> Log([m EXCEPT !.cpu.sp = @ - 1], "pop", v, m.cpu.sp), ret |-> v]

pop(m) ==
    IF m.cpu.sp < 0
    THEN [m |-> Log([Say(m, Diag("Stack underflow")) EXCEPT !.cpu.state = Cpu_Break],
                    "pop_underflow", Zero, -1),
          ret |-> Zero]
    ELSE LET v == m.cpu.stack[m.cpu.sp]
         IN  [m |-> Log([m EXCEPT !.cpu.sp = @ - 1], "pop", v, m.cpu.sp), ret |-> v]

\* a BAIL_ON_ERROR() that never breaks
BAIL_never(m) == FALSE

\* the condition under which BAIL_ON_ERROR() executes its break
BAIL_ON_ERROR(m) == m.cpu.state # Cpu_Running

\* tmp1 = rand()
rand(m) == [m |-> Log([m EXCEPT !.nrand = @ + 1], "rand", m.rnd, -1), ret |-> m.rnd]

\* a jump to the immediate taken as an absolute address
jump_absolute(m, d) == Log([m EXCEPT !.cpu.pc = d.immediate], "jump", d.immediate, -1)

\* cpu.pc += decoded.immediate
jump(m, d) == Log([m EXCEPT !.cpu.pc = Add32(@, d.immediate)], "jump", d.immediate, -1)

\* cpu.state = ...
set_state(m, st) == Log([m EXCEPT !.cpu.state = st], "set_state", Zero, -1)

\* printf("[%d]\n", tmp1)
print(m, v) == Log(Say(m, Line("print", "[%d]", Fmt_d(v))), "print", v, -1)

(***************************************************************************)
(* switched.c: the cases of the switch.  A break, the one of BAIL_ON_ERROR *)
(* included, leaves the switch.                                            *)
(***************************************************************************)
case_Nop(m, d) == m

\* a Halt case that stops the machine as a fault
case_Halt_as_Break(m, d) == set_state(m, Cpu_Break)

case_Halt(m, d) == set_state(m, Cpu_Halted)

case_Push(m, d) == push(m, d.immediate)

\* Print that writes the popped value before it tests the state
case_Print_unchecked(m, d) ==
    LET p1 == pop(m)
    IN  print(p1.m, p1.ret)

case_Print(m, d) ==
    LET p1 == pop(m)
    IN  IF BAIL_ON_ERROR(p1.m) THEN p1.m ELSE print(p1.m, p1.ret)

case_Swap(m, d) ==
    LET p1 == pop(m)
        p2 == pop(p1.m)
    IN  IF BAIL_ON_ERROR(p2.m) THEN p2.m
        ELSE push(push(p2.m, p1.ret), p2.ret)

case_Dup(m, d) ==
    LET p1 == pop(m)
    IN  IF BAIL_ON_ERROR(p1.m) THEN p1.m
        ELSE push(push(p1.m, p1.ret), p1.ret)

case_Over(m, d) ==
    LET p1 == pop(m)
        p2 == pop(p1.m)
    IN  IF BAIL_ON_ERROR(p2.m) THEN p2.m
        ELSE push(push(push(p2.m, p2.ret), p1.ret), p2.ret)

case_Inc(m, d) ==
    LET p1 == pop(m)
    IN  IF BAIL_ON_ERROR(p1.m) THEN p1.m ELSE push(p1.m, Add32(p1.ret, One))

case_Add(m, d) ==
    LET p1 == pop(m)
        p2 == pop(p1.m)
    IN  IF BAIL_ON_ERROR(p2.m) THEN p2.m ELSE push(p2.m, Add32(p1.ret, p2.ret))

case_Sub(m, d) ==
    LET p1 == pop(m)
        p2 == pop(p1.m)
    IN  IF BAIL_ON_ERROR(p2.m) THEN p2.m ELSE push(p2.m, Sub32(p1.ret, p2.ret))

\* Mod taking the first popped value for the divisor
case_Mod_top_divisor(m, d) ==
    LET p1 == pop(m)
        p2 == pop(p1.m)
    IN  IF BAIL_ON_ERROR(p2.m) THEN p2.m
        ELSE IF p1.ret = Zero THEN set_state(p2.m, Cpu_Break)
        ELSE push(p2.m, Rem32(p2.ret, p1.ret))

case_Mod(m, d) ==
    LET p1 == pop(m)
        p2 == pop(p1.m)
    IN  IF BAIL_ON_ERROR(p2.m) THEN p2.m
        ELSE IF p2.ret = Zero THEN set_state(p2.m, Cpu_Break)
        ELSE push(p2.m, Rem32(p1.ret, p2.ret))

\* Mul computing the sum of its operands
case_Mul_as_Add(m, d) ==
    LET p1 == pop(m)
        p2 == pop(p1.m)
    IN  IF BAIL_ON_ERROR(p2.m) THEN p2.m ELSE push(p2.m, Add32(p1.ret, p2.ret))

case_Mul(m, d) ==
    LET p1 == pop(m)
        p2 == pop(p1.m)
    IN  IF BAIL_ON_ERROR(p2.m) THEN p2.m ELSE push(p2.m, Mul32(p1.ret, p2.ret))

case_Rand(m, d) ==
    LET r == rand(m)
    IN  push(r.m, r.ret)

case_Dec(m, d) ==
    LET p1 == pop(m)
    IN  IF BAIL_ON_ERROR(p1.m) THEN p1.m ELSE push(p1.m, Sub32(p1.ret, One))

case_Drop(m, d) == pop(m).m

case_JE(m, d) ==
    LET p1 == pop(m)
    IN  IF BAIL_ON_ERROR(p1.m) THEN p1.m
        ELSE IF p1.ret = Zero THEN jump(p1.m, d) ELSE p1.m

case_JNE(m, d) ==
    LET p1 == pop(m)
    IN  IF BAIL_ON_ERROR(p1.m) THEN p1.m
        ELSE IF p1.ret # Zero THEN jump(p1.m, d) ELSE p1.m

case_Jump(m, d) == jump(m, d)

case_Break(m, d) == set_state(m, Cpu_Break)

\* default: assert("Unreachable" && false)
case_default(m, d) == Log(m, "unreachable", d.opcode, -1)

\* switch(decoded.opcode)
switch(m, d) ==
    LET e == Log(m, "enter", d.opcode, d.length)
        o == d.opcode
    IN  CASE o = Instr_Nop -> case_Nop(e, d)
          [] o = Instr_Halt -> case_Halt(e, d)
          [] o = Instr_Push -> case_Push(e, d)
          [] o = Instr_Print -> case_Print(e, d)
          [] o = Instr_Swap -> case_Swap(e, d)
          [] o = Instr_Dup -> case_Dup(e, d)
          [] o = Instr_Over -> case_Over(e, d)
          [] o = Instr_Inc -> case_Inc(e, d)
          [] o = Instr_Add -> case_Add(e, d)
          [] o = Instr_Sub -> case_Sub(e, d)
          [] o = Instr_Mod -> case_Mod(e, d)
          [] o = Instr_Mul -> case_Mul(e, d)
          [] o = Instr_Rand -> case_Rand(e, d)
          [] o = Instr_Dec -> case_Dec(e, d)
          [] o = Instr_Drop -> case_Drop(e, d)
          [] o = Instr_JE -> case_JE(e, d)
          [] o = Instr_JNE -> case_JNE(e, d)
          [] o = Instr_Jump -> case_Jump(e, d)
          [] o = Instr_Break -> case_Break(e, d)
          [] OTHER -> case_default(e, d)

\* the advance of pc that leaves steps alone
advance_keeps_steps(m, d) ==
    Log([m EXCEPT !.cpu.pc = Add32(@, U(d.length))], "advance", U(d.length), -1)

\* cpu.pc += decoded.length; cpu.steps++
advance(m, d) ==
    Log([m EXCEPT !.cpu.pc = Add32(@, U(d.length)), !.cpu.steps = @ + 1],
        "advance", U(d.length), -1)

\* the loop condition of switched.c
loop_cond(cpu) == cpu.state = Cpu_Running /\ cpu.steps < steplimit

\* one iteration of the while loop of switched.c; pos is where control is
\* after it: at the loop condition again, or behind the loop
loop_body(m) ==
    LET f == fetch_checked(m)
    IN  IF BAIL_ON_ERROR(f.m) THEN [m |-> f.m, pos |-> "after_loop"]
        ELSE LET dd == decode(f.m, f.raw)
                 h == switch(dd.m, dd.d)
             IN  IF h.log[Len(h.log)].op = "unreachable" /\ ~m.ndebug
                 THEN [m |-> h, pos |-> "aborted"]
                 ELSE [m |-> advance(h, dd.d), pos |-> "loop"]

\* assert(cpu.state != Cpu_Running || cpu.steps == steplimit)
loop_assert(cpu) == cpu.state # Cpu_Running \/ cpu.steps = steplimit

\* the report printed after the loop: steps, state, pc, sp and the stack
\* from the top down (or the empty marker)
report(cpu) ==
    Line("report",
         IF cpu.state = Cpu_Halted THEN "Halted"
         ELSE IF cpu.state = Cpu_Running THEN "Running" ELSE "Break",
         <<cpu.steps, cpu.pc, cpu.sp,
           [k \in 1 .. cpu.sp + 1 |-> cpu.stack[cpu.sp + 1 - k]],
           IF cpu.sp = -1 THEN "(empty)" ELSE "">>)

\* return cpu.state == Cpu_Halted || (cpu.state == Cpu_Running && cpu.steps == steplimit) ? 0 : 1
exit_code(cpu) ==
    IF cpu.state = Cpu_Halted \/ (cpu.state = Cpu_Running /\ cpu.steps = steplimit)
    THEN 0 ELSE 1

SIGABRT == 134

(***************************************************************************)
(* threaded.c: the service routines.  Here a break, the one of             *)
(* BAIL_ON_ERROR and the one of ADVANCE_PC included, leaves the do-while   *)
(* loop.                                                                   *)
(***************************************************************************)
service_routines ==
    <<"sr_Break", "sr_Nop", "sr_Halt", "sr_Push", "sr_Print",
      "sr_Jne", "sr_Swap", "sr_Dup", "sr_Je", "sr_Inc",
      "sr_Add", "sr_Sub", "sr_Mul", "sr_Rand", "sr_Dec",
      "sr_Drop", "sr_Over", "sr_Mod", "sr_Jump", "NULL">>

Routines == {service_routines[i] : i \in 1 .. 19}

\* goto *service_routines[decoded.opcode]: the label control goes to; a NULL
\* entry or an index behind the table is undefined behaviour
DISPATCH(d) ==
    IF d.opcode[1] = 0 /\ d.opcode[2] < Len(service_routines)
    THEN service_routines[d.opcode[2] + 1]
    ELSE "undefined"

fetch_decode(m) ==
    LET f == fetch_checked(m)
    IN  decode(f.m, f.raw)

\* cpu.pc += decoded.length; cpu.steps++;
\* if (cpu.state != Cpu_Running || cpu.steps >= steplimit) break;
ADVANCE_PC(m, d) ==
    LET a == advance(m, d)
    IN  [m |-> a, brk |-> a.cpu.state # Cpu_Running \/ a.cpu.steps >= steplimit]

\* control behind the loop, reached by a break
Break_out(m, d) == [m |-> m, d |-> d, pos |-> "after_loop"]

\* decoded = fetch_decode(&cpu); DISPATCH();
Next_routine(m) ==
    LET f == fetch_decode(m)
    IN  [m |-> Log(f.m, "dispatch", f.d.opcode, f.d.length), d |-> f.d, pos |-> DISPATCH(f.d)]

\* ADVANCE_PC(); decoded = fetch_decode(&cpu); DISPATCH();
Advance_dispatch(m, d) ==
    LET a == ADVANCE_PC(m, d)
    IN  IF a.brk THEN Break_out(a.m, d) ELSE Next_routine(a.m)

sr_Nop(m, d) == Advance_dispatch(m, d)

sr_Push(m, d) == Advance_dispatch(push(m, d.immediate), d)

\* no dispatch after Halt: without the break of ADVANCE_PC control would
\* fall through into sr_Push
sr_Halt(m, d) ==
    LET a == ADVANCE_PC(set_state(m, Cpu_Halted), d)
    IN  IF a.brk THEN Break_out(a.m, d) ELSE sr_Push(a.m, d)

sr_Print(m, d) ==
    LET p1 == pop(m)
    IN  IF BAIL_ON_ERROR(p1.m) THEN Break_out(p1.m, d)
        ELSE Advance_dispatch(print(p1.m, p1.ret), d)

sr_Swap(m, d) ==
    LET p1 == pop(m)
        p2 == pop(p1.m)
    IN  IF BAIL_ON_ERROR(p2.m) THEN Break_out(p2.m, d)
        ELSE Advance_dispatch(push(push(p2.m, p1.ret), p2.ret), d)

sr_Dup(m, d) ==
    LET p1 == pop(m)
    IN  IF BAIL_ON_ERROR(p1.m) THEN Break_out(p1.m, d)
        ELSE Advance_dispatch(push(push(p1.m, p1.ret), p1.ret), d)

sr_Over(m, d) ==
    LET p1 == pop(m)
        p2 == pop(p1.m)
    IN  IF BAIL_ON_ERROR(p2.m) THEN Break_out(p2.m, d)
        ELSE Advance_dispatch(push(push(push(p2.m, p2.ret), p1.ret), p2.ret), d)

sr_Inc(m, d) ==
    LET p1 == pop(m)
    IN  IF BAIL_ON_ERROR(p1.m) THEN Break_out(p1.m, d)
        ELSE Advance_dispatch(push(p1.m, Add32(p1.ret, One)), d)

sr_Add(m, d) ==
    LET p1 == pop(m)
        p2 == pop(p1.m)
    IN  IF BAIL_ON_ERROR(p2.m) THEN Break_out(p2.m, d)
        ELSE Advance_dispatch(push(p2.m, Add32(p1.ret, p2.ret)), d)

\* Sub subtracting in stack order: the second popped minus the first
sr_Sub_stack_order(m, d) ==
    LET p1 == pop(m)
        p2 == pop(p1.m)
    IN  IF BAIL_ON_ERROR(p2.m) THEN Break_out(p2.m, d)
        ELSE Advance_dispatch(push(p2.m, Sub32(p2.ret, p1.ret)), d)

sr_Sub(m, d) ==
    LET p1 == pop(m)
        p2 == pop(p1.m)
    IN  IF BAIL_ON_ERROR(p2.m) THEN Break_out(p2.m, d)
        ELSE Advance_dispatch(push(p2.m, Sub32(p1.ret, p2.ret)), d)

sr_Mod(m, d) ==
    LET p1 == pop(m)
        p2 == pop(p1.m)
    IN  IF BAIL_ON_ERROR(p2.m) THEN Break_out(p2.m, d)
        ELSE IF p2.ret = Zero THEN Break_out(set_state(p2.m, Cpu_Break), d)
        ELSE Advance_dispatch(push(p2.m, Rem32(p1.ret, p2.ret)), d)

sr_Mul(m, d) ==
    LET p1 == pop(m)
        p2 == pop(p1.m)
    IN  IF BAIL_ON_ERROR(p2.m) THEN Break_out(p2.m, d)
        ELSE Advance_dispatch(push(p2.m, Mul32(p1.ret, p2.ret)), d)

sr_Rand(m, d) ==
    LET r == rand(m)
    IN  Advance_dispatch(push(r.m, r.ret), d)

sr_Dec(m, d) ==
    LET p1 == pop(m)
    IN  IF BAIL_ON_ERROR(p1.m) THEN Break_out(p1.m, d)
        ELSE Advance_dispatch(push(p1.m, Sub32(p1.ret, One)), d)

sr_Drop(m, d) == Advance_dispatch(pop(m).m, d)

sr_Je(m, d) ==
    LET p1 == pop(m)
    IN  IF BAIL_ON_ERROR(p1.m) THEN Break_out(p1.m, d)
        ELSE Advance_dispatch(IF p1.ret = Zero THEN jump(p1.m, d) ELSE p1.m, d)

sr_Jne(m, d) ==
    LET p1 == pop(m)
    IN  IF BAIL_ON_ERROR(p1.m) THEN Break_out(p1.m, d)
        ELSE Advance_dispatch(IF p1.ret # Zero THEN jump(p1.m, d) ELSE p1.m, d)

sr_Jump(m, d) == Advance_dispatch(jump(m, d), d)

\* no dispatch after Break: without the break of ADVANCE_PC control would
\* reach the condition of the do-while loop and, while Running, its top (sr_Nop)
sr_Break(m, d) ==
    LET a == ADVANCE_PC(set_state(m, Cpu_Break), d)
    IN  IF a.brk \/ a.m.cpu.state # Cpu_Running THEN Break_out(a.m, d)
        ELSE sr_Nop(a.m, d)

\* the service routine at a label
routine(label, m0, d) ==
    LET m == Log(m0, "enter", d.opcode, d.length)
    IN  CASE label = "sr_Nop" -> sr_Nop(m, d)
          [] label = "sr_Halt" -> sr_Halt(m, d)
          [] label = "sr_Push" -> sr_Push(m, d)
          [] label = "sr_Print" -> sr_Print(m, d)
          [] label = "sr_Swap" -> sr_Swap(m, d)
          [] label = "sr_Dup" -> sr_Dup(m, d)
          [] label = "sr_Over" -> sr_Over(m, d)
          [] label = "sr_Inc" -> sr_Inc(m, d)
          [] label = "sr_Add" -> sr_Add(m, d)
          [] label = "sr_Sub" -> sr_Sub(m, d)
          [] label = "sr_Mod" -> sr_Mod(m, d)
          [] label = "sr_Mul" -> sr_Mul(m, d)
          [] label = "sr_Rand" -> sr_Rand(m, d)
          [] label = "sr_Dec" -> sr_Dec(m, d)
          [] label = "sr_Drop" -> sr_Drop(m, d)
          [] label = "sr_Je" -> sr_Je(m, d)
          [] label = "sr_Jne" -> sr_Jne(m, d)
          [] label = "sr_Jump" -> sr_Jump(m, d)
          [] label = "sr_Break" -> sr_Break(m, d)

(***************************************************************************)
(* The inputs: program images and step limits.                             *)
(***************************************************************************)
MaxInstrs == 2      \* generated programs hold up to MaxInstrs instructions
MaxLimit == 2       \* the finite step limits tried are -1 .. MaxLimit
MaxSteps == 100     \* a run is followed for at most MaxSteps steps
MaxRands == 2       \* rand() draws MaxRands free values, then repeats them

\* opcode values behind the catalog: the NULL slot of the table and a far one
Undefined == {<<0, 19>>, <<65535, 65535>>}

Instrs ==
    {<<w>> : w \in OneWord \cup {Instr_Break, <<0, 19>>}}
    \cup {<<Instr_Push, v>> : v \in {Zero, One}}
    \cup {<<j, One>> : j \in {Instr_JE, Instr_JNE, Instr_Jump}}

RECURSIVE Generated(_)
Generated(n) ==
    IF n = 0 THEN {<<>>}
    ELSE LET g == Generated(n - 1)
         IN  g \cup {p \o i : p \in g, i \in Instrs}

\* switched.c: Program
Program ==
    <<Instr_Nop, Instr_Push, <<4369, 8738>>, Instr_Push, <<0, 61453>>, Instr_Print,
      Instr_Push, U(1), Instr_Push, U(2), Instr_Push, U(3), Instr_Push, U(4),
      Instr_Swap, Instr_Dup, Instr_Inc, Instr_Add, Instr_Sub, Instr_Mul,
      Instr_Rand, Instr_Dec, Instr_Drop, Instr_Over, Instr_Halt, Instr_Break>>

\* switched.c: Factorial, for n
Factorial(n) ==
    <<Instr_Push, U(n), Instr_Push, U(1), Instr_Swap,
      Instr_Swap, Instr_Over, Instr_Mul, Instr_Swap, Instr_Dec, Instr_Dup,
      Instr_JNE, S(-8), Instr_Swap, Instr_Print, Instr_Halt>>

\* switched.c, threaded.c: Primes, for nmax
Primes(nmax) ==
    <<Instr_Push, U(nmax), Instr_Push, U(2),
      Instr_Over, Instr_Over, Instr_Sub, Instr_JE, U(23),
      Instr_Push, U(2),
      Instr_Over, Instr_Over, Instr_Swap, Instr_Sub, Instr_JE, U(9),
      Instr_Over, Instr_Over, Instr_Swap, Instr_Mod, Instr_JE, U(5),
      Instr_Inc, Instr_Jump, S(-15),
      Instr_Over, Instr_Print,
      Instr_Drop, Instr_Inc, Instr_Jump, S(-28),
      Instr_Halt>>

\* Mod on 10 under 0 (the top), and on 0 under 10
DivZero == <<Instr_Push, U(10), Instr_Push, U(0), Instr_Mod, Instr_Halt>>

ZeroDivisor == <<Instr_Push, U(0), Instr_Push, U(10), Instr_Mod, Instr_Halt>>

Heads ==
    {Program, Factorial(5), Factorial(12), Primes(4), DivZero, ZeroDivisor,
     <<Instr_Jump, S(-2)>>,
     <<Instr_Jump, S(-3)>>,
     <<Instr_Jump, S(-100)>>,
     <<Instr_Push, One, Instr_Dup, Instr_Jump, S(-3)>>,
     <<Instr_Push, One, Instr_Push, U(2), Instr_Over, Instr_Jump, S(-3)>>,
     <<Instr_Push, U(7), Instr_Push, U(3), Instr_Sub, Instr_Print, Instr_Halt>>,
     <<Instr_Push, U(3), Instr_Push, U(7), Instr_Mod, Instr_Print, Instr_Halt>>,
     <<Instr_Rand, Instr_Rand, Instr_Rand, Instr_Add, Instr_Print, Instr_JE, One,
       Instr_Break, Instr_Halt>>}

\* programs whose last words are given: control is sent to them
Tails ==
    {[head |-> <<Instr_Jump, U(PROGRAM_SIZE - 3)>>, tail |-> <<w>>] :
        w \in {Instr_Nop, Instr_Push, Instr_JE, Instr_JNE, Instr_Jump, Instr_Halt}}
    \cup {[head |-> <<Instr_Push, Zero, Instr_Jump, U(PROGRAM_SIZE - 6)>>, tail |-> t] :
            t \in {<<Instr_JE, One>>, <<Instr_Dup, Instr_JNE>>, <<Instr_Push, U(9)>>}}

\* two operands, then a two-operand instruction
BinOps ==
    {<<Instr_Push, a, Instr_Push, b, o, Instr_Print, Instr_Halt>> :
        a \in {Zero, One, U(7), <<65535, 65535>>},
        b \in {Zero, One, U(3), <<65535, 65534>>},
        o \in {Instr_Swap, Instr_Over, Instr_Add, Instr_Sub, Instr_Mul, Instr_Mod}}

\* a value, then a jump over it: forward, backward, out of the program
Jumps ==
    {<<Instr_Push, v, j, i, Instr_Halt, Instr_Nop, Instr_Halt>> :
        v \in {Zero, One},
        j \in {Instr_JE, Instr_JNE, Instr_Jump},
        i \in {Zero, One, S(-4), S(-2), U(PROGRAM_SIZE), S(-100)}}

Firsts == {<<w>> : w \in Undefined} \cup {<<Instr_Push, <<65535, 65535>>, Instr_Inc, Instr_Print>>}

Programs ==
    {[head |-> h, tail |-> <<>>] :
        h \in Generated(MaxInstrs) \cup Heads \cup BinOps \cup Jumps \cup Firsts}
    \cup Tails

StepLimits == (-1 .. MaxLimit) \cup {LLONG_MAX}

\* decoded before its initialiser has run
no_decoded == [opcode |-> Instr_Break, length |-> 0, immediate |-> Zero]

Init ==
    /\ pmem \in Programs
    /\ steplimit \in StepLimits
    /\ rands = <<>>
    /\ cpuS = cpu_init /\ outS = <<>> /\ logS = <<>> /\ posS = "loop"
    /\ nrandS = 0 /\ exitS = -1
    /\ cpuT = cpu_init /\ decodedT = no_decoded /\ outT = <<>> /\ logT = <<>>
    /\ posT = "start" /\ nrandT = 0 /\ exitT = -1

\* the values the k-th call of rand() may return (k counted from 0): both
\* processes see the same stream
RandChoices(k) ==
    IF k < Len(rands) THEN {rands[k + 1]}
    ELSE IF k >= MaxRands THEN {rands[(k % MaxRands) + 1]}
    ELSE RandVals

Drawn(k, m) ==
    IF m.nrand > k /\ k = Len(rands) /\ k < MaxRands THEN Append(rands, m.rnd) ELSE rands

\* the machine an operation works on: the cpu, stdout, the log of the step,
\* what rand() returns next, and whether the build defines NDEBUG
Machine(cpu, out, r, n, nd) ==
    [cpu |-> cpu, out |-> out,
     log |-> <<[op |-> "begin", w |-> Zero, idx |-> -1, cpu |-> cpu]>>,
     rnd |-> r, nrand |-> n, ndebug |-> nd]

(***************************************************************************)
(* switched.c: main                                                        *)
(***************************************************************************)
SwitchedIter ==
    /\ posS = "loop" /\ loop_cond(cpuS) /\ cpuS.steps < MaxSteps
    /\ \E r \in RandChoices(nrandS), nd \in BOOLEAN :
         LET res == loop_body(Machine(cpuS, outS, r, nrandS, nd))
         IN  /\ cpuS' = res.m.cpu /\ outS' = res.m.out /\ logS' = res.m.log
             /\ posS' = res.pos /\ nrandS' = res.m.nrand
             /\ rands' = Drawn(nrandS, res.m)
    /\ UNCHANGED <<pmem, steplimit, exitS, cpuT, decodedT, outT, logT, posT, nrandT, exitT>>

\* the assertion behind the loop, the report and the return; a failed
\* assertion aborts the process unless the build defines NDEBUG
SwitchedExit ==
    /\ posS = "after_loop" \/ (posS = "loop" /\ ~loop_cond(cpuS))
    /\ \E nd \in BOOLEAN :
         IF ~loop_assert(cpuS) /\ ~nd
         THEN exitS' = SIGABRT /\ outS' = outS
         ELSE exitS' = exit_code(cpuS) /\ outS' = Append(outS, report(cpuS))
    /\ posS' = "done"
    /\ UNCHANGED <<pmem, steplimit, rands, cpuS, logS, nrandS,
                   cpuT, decodedT, outT, logT, posT, nrandT, exitT>>

\* the switched run is over, or is followed no further
SwitchedStopped ==
    posS \in {"done", "aborted"} \/ (posS = "loop" /\ loop_cond(cpuS) /\ cpuS.steps >= MaxSteps)

(***************************************************************************)
(* threaded.c: main                                                        *)
(***************************************************************************)
\* decode_t decoded = fetch_decode(&cpu); DISPATCH();
ThreadedStart ==
    /\ SwitchedStopped
    /\ posT = "start"
    /\ LET res == Next_routine(Machine(cpuT, outT, Zero, nrandT, FALSE))
       IN  /\ cpuT' = res.m.cpu /\ outT' = res.m.out /\ logT' = res.m.log
           /\ decodedT' = res.d /\ posT' = res.pos
    /\ UNCHANGED <<pmem, steplimit, rands, cpuS, outS, logS, posS, nrandS, exitS,
                   nrandT, exitT>>

\* one service routine, from its label to the next indirect jump or the break
ThreadedRoutine ==
    /\ posT \in Routines /\ cpuT.steps < MaxSteps
    /\ \E r \in RandChoices(nrandT) :
         LET res == routine(posT, Machine(cpuT, outT, r, nrandT, FALSE), decodedT)
         IN  /\ cpuT' = res.m.cpu /\ outT' = res.m.out /\ logT' = res.m.log
             /\ decodedT' = res.d /\ posT' = res.pos /\ nrandT' = res.m.nrand
             /\ rands' = Drawn(nrandT, res.m)
    /\ UNCHANGED <<pmem, steplimit, cpuS, outS, logS, posS, nrandS, exitS, exitT>>

ThreadedExit ==
    /\ posT = "after_loop"
    /\ \E nd \in BOOLEAN :
         IF ~loop_assert(cpuT) /\ ~nd
         THEN exitT' = SIGABRT /\ outT' = outT
         ELSE exitT' = exit_code(cpuT) /\ outT' = Append(outT, report(cpuT))
    /\ posT' = "done"
    /\ UNCHANGED <<pmem, steplimit, rands, cpuS, outS, logS, posS, nrandS, exitS,
                   cpuT, decodedT, logT, nrandT>>

Next == SwitchedIter \/ SwitchedExit \/ ThreadedStart \/ ThreadedRoutine \/ ThreadedExit

Spec == Init /\ [][Next]_vars

(***************************************************************************)
(* Notions the properties are stated in.                                   *)
(***************************************************************************)
\* the stack contents: the live slots, bottom first
Live(cpu) == [k \in 1 .. cpu.sp + 1 |-> cpu.stack[k - 1]]

Prints(out) == SelectSeq(out, LAMBDA l : l.kind = "print")
Diags(out) == SelectSeq(out, LAMBDA l : l.kind = "diag")

\* the words of the catalog
Catalog == OneWord \cup TwoWord \cup {Instr_Break}

\* the positions of a log at which a handler was entered
Entered(L) == {i \in 1 .. Len(L) : L[i].op = "enter"}

\* the positions of a log at which pc and steps were advanced
Advanced(L) == {i \in 1 .. Len(L) : L[i].op = "advance"}

IsPush(e) == e.op \in {"push", "push_overflow"}
IsPop(e) == e.op \in {"pop", "pop_underflow"}

\* a log is the trajectory of its action: it ends in the cpu the action left
LogEnds(L, cpu) == L # <<>> => L[Len(L)].cpu = cpu

(***************************************************************************)
(* C1: for every program and step limit, the two strategies, given the     *)
(* same rand() values, end with the same printed values, the same final    *)
(* pc, sp, stack contents and state, the same step count, the same         *)
(* diagnostic lines and the same exit classification.  Stated here for the *)
(* step limits of at least 1, where both loops are entered.                *)
(***************************************************************************)
C1_SameOutcome ==
    (steplimit >= 1 /\ posS = "done" /\ posT = "done") =>
        /\ Prints(outS) = Prints(outT)
        /\ Diags(outS) = Diags(outT)
        /\ cpuS.pc = cpuT.pc
        /\ cpuS.sp = cpuT.sp
        /\ Live(cpuS) = Live(cpuT)
        /\ cpuS.state = cpuT.state
        /\ cpuS.steps = cpuT.steps
        /\ (exitS = 0) = (exitT = 0)

(***************************************************************************)
(* C2: in both strategies every iteration that completes decode (enters a  *)
(* handler) increases steps by exactly 1 and advances pc by the decoded    *)
(* length, also when the handler faulted or halted; steps never decreases  *)
(* and never changes by more than 1 per iteration.                         *)
(***************************************************************************)
StepCounted(L) ==
    /\ \A i \in Entered(L) :
         \E j \in Advanced(L) :
            /\ j > i
            /\ L[j].cpu.steps = L[1].cpu.steps + 1
            /\ L[j].cpu.pc = Add32(L[j - 1].cpu.pc, U(L[i].idx))
    /\ L # <<>> => L[Len(L)].cpu.steps \in {L[1].cpu.steps, L[1].cpu.steps + 1}

C2_StepAccounting ==
    /\ StepCounted(logS) /\ LogEnds(logS, cpuS)
    /\ StepCounted(logT) /\ LogEnds(logT, cpuT)

(***************************************************************************)
(* C3: in every reachable state of either run -1 <= sp < STACK_CAPACITY,   *)
(* and every stack slot push or pop reads or writes has an index in        *)
(* 0 .. STACK_CAPACITY-1.                                                  *)
(***************************************************************************)
SpInRange(cpu) == -1 <= cpu.sp /\ cpu.sp < STACK_CAPACITY

StackAccessInRange(L) ==
    \A i \in 1 .. Len(L) :
        /\ SpInRange(L[i].cpu)
        /\ L[i].op \in {"push", "pop"} => L[i].idx \in 0 .. STACK_CAPACITY - 1

C3_StackPointerInRange ==
    /\ SpInRange(cpuS) /\ StackAccessInRange(logS)
    /\ SpInRange(cpuT) /\ StackAccessInRange(logT)

\* the stack is full and a push has been refused
C3_Witness ==
    /\ cpuT.sp = STACK_CAPACITY - 1
    /\ \E i \in 1 .. Len(logT) : logT[i].op = "push_overflow"

(***************************************************************************)
(* C4: push on a full stack sets state=Break and changes neither sp nor    *)
(* any slot; pop on an empty stack sets state=Break, returns 0 and changes *)
(* neither sp nor any slot; otherwise push does sp+=1, stack[sp]=v and pop *)
(* returns stack[sp] and does sp-=1, both without touching state.          *)
(***************************************************************************)
PushPopContract(L) ==
    \A i \in 2 .. Len(L) :
        LET e == L[i]
            pre == L[i - 1].cpu
            post == e.cpu
        IN  /\ IsPush(e) =>
                 IF pre.sp = STACK_CAPACITY - 1
                 THEN post = [pre EXCEPT !.state = Cpu_Break]
                 ELSE post = [pre EXCEPT !.sp = pre.sp + 1, !.stack[pre.sp + 1] = e.w]
            /\ IsPop(e) =>
                 IF pre.sp = -1
                 THEN post = [pre EXCEPT !.state = Cpu_Break] /\ e.w = Zero
                 ELSE post = [pre EXCEPT !.sp = pre.sp - 1] /\ e.w = pre.stack[pre.sp]

C4_PushPopContract == PushPopContract(logS) /\ PushPopContract(logT)

\* one handler has popped from a non-empty stack, pushed onto a stack with
\* room, and then pushed onto the full stack
C4_Witness ==
    \E i \in 2 .. Len(logS) :
        /\ IsPush(logS[i]) /\ logS[i - 1].cpu.sp = STACK_CAPACITY - 1
        /\ \E j \in 2 .. i - 1 : IsPop(logS[j]) /\ logS[j - 1].cpu.sp >= 0
        /\ \E j \in 2 .. i - 1 : IsPush(logS[j]) /\ logS[j - 1].cpu.sp < STACK_CAPACITY - 1

(***************************************************************************)
(* C5: a 2-word Jump with immediate I at pc=P leaves pc = (P+I+2) mod 2^32 *)
(* after the step, in both strategies; JE pops a value and ends at P+I+2   *)
(* when it is 0 and at P+2 otherwise; JNE pops a value and ends at P+I+2   *)
(* when it is non-zero and at P+2 otherwise; the popped value is consumed  *)
(* whether the jump is taken or not.                                       *)
(***************************************************************************)
JumpAddressing(L) ==
    \A i \in Entered(L) :
        LET P == L[1].cpu.pc
            I == Mem(P[2] + 1)
            taken == Add32(Add32(P, I), U(2))
            fall == Add32(P, U(2))
            sp0 == L[1].cpu.sp
            top == L[1].cpu.stack[sp0]
            last == L[Len(L)].cpu
        IN  /\ L[i].w = Instr_Jump =>
                 /\ Advanced(L) # {}
                 /\ last.pc = taken /\ last.sp = sp0
            /\ (L[i].w = Instr_JE /\ sp0 >= 0) =>
                 /\ Advanced(L) # {}
                 /\ last.pc = (IF top = Zero THEN taken ELSE fall)
                 /\ last.sp = sp0 - 1
            /\ (L[i].w = Instr_JNE /\ sp0 >= 0) =>
                 /\ Advanced(L) # {}
                 /\ last.pc = (IF top # Zero THEN taken ELSE fall)
                 /\ last.sp = sp0 - 1

C5_JumpAddressing ==
    /\ JumpAddressing(logS) /\ LogEnds(logS, cpuS)
    /\ JumpAddressing(logT) /\ LogEnds(logT, cpuT)

\* a backward Jump has been executed and has wrapped pc below 0
C5_Witness ==
    \/ \E i \in Entered(logT) : logT[i].w = Instr_Jump /\ cpuT.pc[1] = 65535
    \/ \E i \in Entered(logS) : logS[i].w = Instr_Jump /\ cpuS.pc[1] = 65535

(***************************************************************************)
(* C6: when a run ends, the exit code is 0 exactly when state==Halted, or  *)
(* state==Running and steps==steplimit; otherwise it is 1, and in every    *)
(* failure case the final state is Break; for every program and step       *)
(* limit, under both strategies.  Stated here for the step limits from 0   *)
(* up.                                                                     *)
(***************************************************************************)
ExitClassified(cpu, code) ==
    /\ (code = 0) = (cpu.state = Cpu_Halted
                        \/ (cpu.state = Cpu_Running /\ cpu.steps = steplimit))
    /\ code # 0 => (code = 1 /\ cpu.state = Cpu_Break)

C6_ExitClassification ==
    steplimit >= 0 =>
        /\ posS = "done" => ExitClassified(cpuS, exitS)
        /\ posT = "done" => ExitClassified(cpuT, exitT)

(***************************************************************************)
(* C7: the run state only moves forward: once it is Halted or Break it     *)
(* never takes another value, and no further instruction is dispatched and *)
(* counted as a step, under either strategy.                               *)
(***************************************************************************)
StaysStopped(cpu, next) ==
    cpu.state # Cpu_Running => (next.state = cpu.state /\ next.steps = cpu.steps)

C7_RunStateForward == [][StaysStopped(cpuS, cpuS') /\ StaysStopped(cpuT, cpuT')]_vars

(***************************************************************************)
(* C8: from the moment state becomes non-Running inside a step, sp and the *)
(* stack are never modified again, and pc is modified at most by the       *)
(* pending pc += decoded.length of that step: no jump offset is added, no  *)
(* push succeeds, no pop removes an element.                               *)
(***************************************************************************)
FrameAfterStop(L) ==
    \A i \in 2 .. Len(L) :
        LET pre == L[i - 1].cpu
            post == L[i].cpu
        IN  pre.state # Cpu_Running =>
              /\ post.sp = pre.sp
              /\ post.stack = pre.stack
              /\ \/ post.pc = pre.pc
                 \/ /\ L[i].op = "advance"
                    /\ Cardinality(Advanced(L)) = 1
                    /\ \E k \in Entered(L) : k < i /\ post.pc = Add32(pre.pc, U(L[k].idx))

C8_FrameAfterStop ==
    /\ FrameAfterStop(logS) /\ LogEnds(logS, cpuS)
    /\ FrameAfterStop(logT) /\ LogEnds(logT, cpuT)
    /\ logS # <<>> => logS[1].cpu.state = Cpu_Running
    /\ (logT # <<>> /\ logT[1].cpu.state # Cpu_Running) => posT \in {"after_loop", "done"}

\* a handler of the switched loop has stopped the machine by a failed pop
\* and the pending advance of pc has followed
C8_Witness ==
    \E i \in Advanced(logS) :
        /\ logS[i - 1].cpu.state = Cpu_Break
        /\ \E j \in 2 .. i - 1 : logS[j].op = "pop_underflow"

(***************************************************************************)
(* C9: with a step limit of at least 1, a program whose first word is Halt *)
(* ends with state=Halted, steps=1, pc=1, sp=-1 and exit success under     *)
(* both strategies; executing Halt sets state=Halted, counts the step,     *)
(* advances pc by 1 and is the last instruction executed in the run.       *)
(***************************************************************************)
HaltedAtOnce(cpu, code) ==
    /\ cpu.state = Cpu_Halted /\ cpu.steps = 1 /\ cpu.pc = One /\ cpu.sp = -1
    /\ code = 0

HaltStep(L) ==
    \A i \in Entered(L) :
        L[i].w = Instr_Halt =>
            LET first == L[1].cpu
                last == L[Len(L)].cpu
            IN  last = [first EXCEPT !.state = Cpu_Halted,
                                     !.steps = first.steps + 1,
                                     !.pc = Add32(first.pc, One)]

HaltIsLast(L, pos) ==
    (\E i \in Entered(L) : L[i].w = Instr_Halt) => pos \in {"loop", "after_loop", "done"}

C9_Halt ==
    /\ (Mem(0) = Instr_Halt /\ steplimit >= 1) =>
          /\ posS = "done" => HaltedAtOnce(cpuS, exitS)
          /\ posT = "done" => HaltedAtOnce(cpuT, exitT)
    /\ HaltStep(logS) /\ LogEnds(logS, cpuS) /\ HaltIsLast(logS, posS)
    /\ HaltStep(logT) /\ LogEnds(logT, cpuT) /\ HaltIsLast(logT, posT)
    /\ (posS = "loop" /\ cpuS.state = Cpu_Halted) => ~loop_cond(cpuS)

\* both runs of a program that halts after some steps are over
C9_Witness ==
    /\ posS = "done" /\ posT = "done"
    /\ cpuS.state = Cpu_Halted /\ cpuT.state = Cpu_Halted
    /\ cpuT.steps > 1
    /\ \E i \in Entered(logT) : logT[i].w = Instr_Halt

(***************************************************************************)
(* C10: every word fetched at pc < PROGRAM_SIZE decodes to an opcode of    *)
(* the catalog, a value outside the catalog to Break of length 1, so the   *)
(* default case of the switch and the NULL slot of the table (and what is  *)
(* behind it) are never reached.                                           *)
(***************************************************************************)
DecodedInCatalog(L) ==
    /\ \A i \in 1 .. Len(L) :
          /\ L[i].op # "unreachable"
          /\ L[i].op \in {"enter", "dispatch"} => L[i].w \in Catalog
    /\ \A k \in 1 .. Len(L) :
          (L[k].op = "fetch" /\ L[k].w \notin Catalog) =>
              \E j \in k + 1 .. Len(L) :
                  /\ L[j].op \in {"enter", "dispatch"}
                  /\ L[j].w = Instr_Break /\ L[j].idx = 1

DecodeTotal ==
    /\ DecodedInCatalog(logS) /\ posS # "aborted"
    /\ DecodedInCatalog(logT) /\ posT \notin {"NULL", "undefined"}
    /\ decodedT.opcode \in Catalog

BreakAtOnce(cpu, code) == cpu.state = Cpu_Break /\ cpu.steps = 1 /\ code = 1

\* C10 as stated: a program whose first word is outside the catalog ends
\* with state=Break, steps=1 and exit failure under both strategies (no
\* condition on the step limit; taken here from 0 up)
C10_AnyStepLimit ==
    /\ DecodeTotal
    /\ (steplimit >= 0 /\ Mem(0) \notin Catalog) =>
          /\ posS = "done" => BreakAtOnce(cpuS, exitS)
          /\ posT = "done" => BreakAtOnce(cpuT, exitT)

\* C10 as amended: with a step limit of at least 1, a program whose first
\* word is outside the catalog ends with state=Break, steps=1 and exit
\* failure under both strategies; decode is total as stated
C10_DecodeTotal ==
    /\ DecodeTotal
    /\ (Mem(0) \notin Catalog /\ steplimit >= 1) =>
          /\ posS = "done" => BreakAtOnce(cpuS, exitS)
          /\ posT = "done" => BreakAtOnce(cpuT, exitT)

\* both runs of a program whose first word is far outside the catalog are over
C10_Witness ==
    /\ Mem(0) = <<65535, 65535>> /\ steplimit >= 1
    /\ posS = "done" /\ posT = "done"
    /\ \E k \in 1 .. Len(logS) : logS[k].op = "fetch" /\ logS[k].w \notin Catalog

(***************************************************************************)
(* C11: the program Push 5, Push 1, Swap, Swap, Over, Mul, Swap, Dec, Dup,  *)
(* JNE -8, Swap, Print, Halt, run with an unbounded step limit, prints the *)
(* value 120 exactly once, prints nothing else, and ends in state Halted,  *)
(* under both strategies.                                                  *)
(***************************************************************************)
Prints120Once(cpu, out) ==
    /\ Prints(out) = <<Line("print", "[%d]", <<"", U(120)>>)>>
    /\ Diags(out) = <<>>
    /\ cpu.state = Cpu_Halted

C11_Factorial ==
    (pmem = [head |-> Factorial(5), tail |-> <<>>] /\ steplimit = LLONG_MAX) =>
        /\ posS = "done" => Prints120Once(cpuS, outS)
        /\ posT = "done" => Prints120Once(cpuT, outT)

\* both runs of the factorial program are over, and the last one has printed
C11_Witness ==
    /\ pmem = [head |-> Factorial(5), tail |-> <<>>] /\ steplimit = LLONG_MAX
    /\ posS = "done" /\ posT = "done"
    /\ Len(Prints(outT)) = 1 /\ cpuT.steps > 5

(***************************************************************************)
(* C12: the program Push 10, Push 0, Mod, Halt terminates in state Break   *)
(* with exactly 3 steps executed and the stack left as [10], under both    *)
(* strategies.                                                             *)
(***************************************************************************)
BreaksOnTen(cpu) == cpu.state = Cpu_Break /\ cpu.steps = 3 /\ Live(cpu) = <<U(10)>>

C12_DivZeroBreaks ==
    (pmem = [head |-> DivZero, tail |-> <<>>] /\ steplimit = LLONG_MAX) =>
        /\ posS = "done" => BreaksOnTen(cpuS)
        /\ posT = "done" => BreaksOnTen(cpuT)

\* C12 as amended: Mod pops 0 and then 10 and the divisor is the second
\* popped, so Push 10, Push 0, Mod, Halt ends Halted after 4 steps with the
\* stack [0]; it is Push 0, Push 10, Mod, Halt that ends in Break, with both
\* operands popped, nothing pushed and Halt not executed
HaltsOnZero(cpu, code) ==
    cpu.state = Cpu_Halted /\ cpu.steps = 4 /\ Live(cpu) = <<U(0)>> /\ code = 0

BreaksEmpty(cpu, code) ==
    cpu.state = Cpu_Break /\ cpu.steps <= 3 /\ Live(cpu) = <<>> /\ code = 1

C12_ModDivisor ==
    steplimit = LLONG_MAX =>
        /\ pmem = [head |-> DivZero, tail |-> <<>>] =>
              /\ posS = "done" => HaltsOnZero(cpuS, exitS)
              /\ posT = "done" => HaltsOnZero(cpuT, exitT)
        /\ pmem = [head |-> ZeroDivisor, tail |-> <<>>] =>
              /\ posS = "done" => BreaksEmpty(cpuS, exitS)
              /\ posT = "done" => BreaksEmpty(cpuT, exitT)

\* both runs of Push 10, Push 0, Mod, Halt are over
C12_Witness ==
    /\ pmem = [head |-> DivZero, tail |-> <<>>] /\ steplimit = LLONG_MAX
    /\ posS = "done" /\ posT = "done"
    /\ cpuS.steps = 4 /\ cpuT.steps = 4

(***************************************************************************)
(* C13: when decode is attempted with pc >= PROGRAM_SIZE the run stops at  *)
(* that point under both strategies: state becomes Break, no program word  *)
(* is read, no handler is dispatched, and pc and steps keep the values     *)
(* they had before that decode.                                            *)
(***************************************************************************)
StopsOutOfBounds(L, cpu, pos) ==
    \A i \in 2 .. Len(L) :
        L[i].op = "pc_oob" =>
            /\ L[i].cpu.state = Cpu_Break
            /\ \A j \in i + 1 .. Len(L) : L[j].op \notin {"fetch", "imm", "dispatch", "enter"}
            /\ pos \in {"after_loop", "done"}
            /\ cpu.pc = L[i - 1].cpu.pc
            /\ cpu.steps = L[i - 1].cpu.steps

C13_StopsOutOfBounds ==
    /\ StopsOutOfBounds(logS, cpuS, posS)
    /\ StopsOutOfBounds(logT, cpuT, posT)

(***************************************************************************)
(* C14: when Push, JE, JNE or Jump sits at pc == PROGRAM_SIZE-1, decode    *)
(* returns opcode Break with length 1 and does not itself change state or  *)
(* read a second word; the Break handler then sets state Break, the step   *)
(* is counted, pc ends at PROGRAM_SIZE, and nothing is pushed, popped or   *)
(* jumped, under both strategies.                                          *)
(***************************************************************************)
LastWord == <<0, PROGRAM_SIZE - 1>>

\* decode at the last word: the cpu is left as it was, the word behind it is
\* not read, and what is handed to dispatch is Break of length 1
TruncatedDecode(L) ==
    \A i \in 2 .. Len(L) :
        L[i].op = "truncated" =>
            /\ L[i].w \in TwoWord /\ L[i - 1].cpu.pc = LastWord
            /\ L[i - 1].op = "fetch" /\ L[i - 1].idx = PROGRAM_SIZE - 1
            /\ L[i].cpu = L[i - 1].cpu
            /\ i < Len(L)
            /\ L[i + 1].op \in {"enter", "dispatch"}
            /\ L[i + 1].w = Instr_Break /\ L[i + 1].idx = 1

\* the handler entered for a two-word opcode at the last word
TruncatedStep(L) ==
    \A k \in 2 .. Len(L) :
        (L[k].op = "enter" /\ L[k - 1].cpu.pc = LastWord /\ Mem(PROGRAM_SIZE - 1) \in TwoWord) =>
            LET pre == L[k - 1].cpu
                post == L[Len(L)].cpu
            IN  /\ L[k].w = Instr_Break /\ L[k].idx = 1
                /\ pre.state = Cpu_Running
                /\ post.state = Cpu_Break
                /\ post.steps = pre.steps + 1
                /\ post.pc = U(PROGRAM_SIZE)
                /\ post.sp = pre.sp /\ post.stack = pre.stack
                /\ \A j \in k + 1 .. Len(L) :
                      /\ ~IsPush(L[j]) /\ ~IsPop(L[j])
                      /\ L[j].op \notin {"jump", "fetch", "imm", "dispatch"}

C14_TruncatedImmediate ==
    /\ TruncatedDecode(logS) /\ TruncatedStep(logS) /\ LogEnds(logS, cpuS)
    /\ TruncatedDecode(logT) /\ TruncatedStep(logT) /\ LogEnds(logT, cpuT)
    /\ (\E i \in 1 .. Len(logT) : logT[i].op = "truncated") => posT = "sr_Break"

\* both runs have ended on a JNE at the last word, after a Dup before it
C14_Witness ==
    /\ Mem(PROGRAM_SIZE - 1) = Instr_JNE /\ Mem(PROGRAM_SIZE - 2) = Instr_Dup
    /\ posS = "done" /\ posT = "done"
    /\ \E i \in 1 .. Len(logS) : logS[i].op = "truncated"
    /\ \E k \in 2 .. Len(logT) : logT[k].op = "enter" /\ logT[k - 1].cpu.pc = LastWord
    /\ cpuS.pc = U(PROGRAM_SIZE) /\ cpuT.pc = U(PROGRAM_SIZE)
    /\ cpuS.sp = 1 /\ cpuT.sp = 1

(***************************************************************************)
(* C15: every run that ends in state Break because of a fault the engine   *)
(* detected has emitted exactly one diagnostic line for it: never zero and *)
(* never two, also for the two-operand handlers run on an empty stack.     *)
(* Stated here is the half "never two".                                    *)
(***************************************************************************)
NeverTwoDiagnostics(cpu, out, pos) ==
    (pos = "done" /\ cpu.state = Cpu_Break) => Len(Diags(out)) <= 1

C15_OneDiagnostic ==
    /\ NeverTwoDiagnostics(cpuS, outS, posS)
    /\ NeverTwoDiagnostics(cpuT, outT, posT)

(***************************************************************************)
(* C16: in every handler that pops, state is tested right after each pop:  *)
(* once a pop has set state Break the handler performs no further pop, no  *)
(* push, no print and no jump; operands popped before the failing pop stay *)
(* removed, so a two-operand handler run on one element ends with sp = -1, *)
(* state Break and nothing pushed.                                         *)
(***************************************************************************)
NothingAfterFailedPop(L) ==
    \A i \in 1 .. Len(L) :
        L[i].op = "pop_underflow" =>
            /\ L[i].cpu.state = Cpu_Break /\ L[i].cpu.sp = -1
            /\ \A j \in i + 1 .. Len(L) :
                  /\ ~IsPop(L[j]) /\ ~IsPush(L[j])
                  /\ L[j].op \notin {"print", "jump"}
                  /\ L[j].cpu.sp = -1

C16_CheckAfterEachPop ==
    /\ NothingAfterFailedPop(logS) /\ LogEnds(logS, cpuS)
    /\ NothingAfterFailedPop(logT) /\ LogEnds(logT, cpuT)

(***************************************************************************)
(* C17: the sequence of printed values is, in order, the values popped by  *)
(* the Print instructions executed with a non-empty stack: every step      *)
(* appends the value its Print popped, and nothing else; a Print that      *)
(* underflowed and every other opcode append nothing.                      *)
(***************************************************************************)
\* the 32-bit value a printed decimal stands for
Value_d(t) == IF t[1] = "-" THEN Sub32(Zero, t[2]) ELSE t[2]

Printed(out) == [k \in 1 .. Len(Prints(out)) |-> Value_d(Prints(out)[k].val)]

\* the values the Print handler of a log has popped
PoppedByPrint(L) ==
    LET at == {i \in 2 .. Len(L) :
                 L[i].op = "pop" /\ L[i - 1].op = "enter" /\ L[i - 1].w = Instr_Print}
    IN  IF at = {} THEN <<>> ELSE <<L[CHOOSE i \in at : TRUE].w>>

PrintStep(out, next, L, nextL) ==
    /\ Cardinality(Entered(nextL)) <= 1
    /\ Printed(next) = Printed(out) \o (IF nextL # L THEN PoppedByPrint(nextL) ELSE <<>>)

C17_PrintOrder ==
    [][PrintStep(outS, outS', logS, logS') /\ PrintStep(outT, outT', logT, logT')]_vars

\* both runs of the prime number program are over and have printed 2, then 3
C17_Witness ==
    /\ pmem.head = Primes(4)
    /\ posS = "done" /\ posT = "done"
    /\ Printed(outS) = <<U(2), U(3)>> /\ Printed(outT) = <<U(2), U(3)>>

(***************************************************************************)
(* C18: on a step without a stack fault each handler's stack effect is the *)
(* opcode table's, modulo 2^32: with a the first popped (top) value and b  *)
(* the second, Add pushes a+b, Sub a-b, Mul a*b, Mod a mod b when b # 0    *)
(* and sets Break without pushing when b = 0, Inc and Dec push a+1 and     *)
(* a-1, Swap pushes a then b, Dup a twice, Over b, a, b, and Drop removes  *)
(* one element; in both strategies.                                        *)
(***************************************************************************)
Operands == [o \in {Instr_Swap, Instr_Over, Instr_Add, Instr_Sub, Instr_Mul, Instr_Mod} |-> 2]
            @@ [o \in {Instr_Dup, Instr_Inc, Instr_Dec, Instr_Drop} |-> 1]

\* what the opcode table has the handler push, for the popped a (and b)
Table(o, a, b) ==
    CASE o = Instr_Add -> <<Add32(a, b)>>
      [] o = Instr_Sub -> <<Sub32(a, b)>>
      [] o = Instr_Mul -> <<Mul32(a, b)>>
      [] o = Instr_Mod -> IF b = Zero THEN <<>> ELSE <<Rem32(a, b)>>
      [] o = Instr_Inc -> <<Add32(a, One)>>
      [] o = Instr_Dec -> <<Sub32(a, One)>>
      [] o = Instr_Swap -> <<a, b>>
      [] o = Instr_Dup -> <<a, a>>
      [] o = Instr_Over -> <<b, a, b>>
      [] o = Instr_Drop -> <<>>

\* a word whose signed reading is within 16 bits, and that reading
Small(w) == (w[1] = 0 /\ w[2] < 32768) \/ (w[1] = Half - 1 /\ w[2] >= 32768)

Signed(w) == IF w[1] >= 32768 THEN (w[1] - Half) * Half + w[2] ELSE w[1] * Half + w[2]

\* the same table in integers, for small operands: the residue modulo 2^32
\* of the integer result (for Mod: of non-negative operands)
TableInt(o, a, b) ==
    CASE o = Instr_Add -> <<S(Signed(a) + Signed(b))>>
      [] o = Instr_Sub -> <<S(Signed(a) - Signed(b))>>
      [] o = Instr_Mul -> <<S(Signed(a) * Signed(b))>>
      [] o = Instr_Mod -> IF a[1] = 0 /\ b[1] = 0 /\ b # Zero
                          THEN <<U(Signed(a) % Signed(b))>>
                          ELSE Table(o, a, b)
      [] o = Instr_Inc -> <<S(Signed(a) + 1)>>
      [] o = Instr_Dec -> <<S(Signed(a) - 1)>>
      [] OTHER -> Table(o, a, b)

Words(L, op) ==
    LET sel == SelectSeq(L, LAMBDA e : e.op = op)
    IN  [k \in 1 .. Len(sel) |-> sel[k].w]

StackEffect(L) ==
    \A k \in Entered(L) :
        LET o == L[k].w
            pre == L[k - 1].cpu
            post == L[Len(L)].cpu
            popped == Words(L, "pop")
            pushed == Words(L, "push")
            a == popped[1]
            b == IF Len(popped) > 1 THEN popped[2] ELSE Zero
        IN  (/\ o \in DOMAIN Operands
             /\ Len(popped) = Operands[o]
             /\ \A i \in 1 .. Len(L) : L[i].op \notin {"pop_underflow", "push_overflow"}) =>
                /\ pushed = Table(o, a, b)
                /\ (Small(a) /\ Small(b)) => pushed = TableInt(o, a, b)
                /\ popped = [i \in 1 .. Operands[o] |-> Live(pre)[Len(Live(pre)) + 1 - i]]
                /\ Live(post) = SubSeq(Live(pre), 1, Len(Live(pre)) - Operands[o]) \o pushed
                /\ post.state = IF o = Instr_Mod /\ b = Zero THEN Cpu_Break ELSE pre.state

C18_StackEffect ==
    /\ StackEffect(logS)
    /\ StackEffect(logT)

\* Sub has wrapped below zero: 0 - 1, popped in this order, left 2^32 - 1
C18_Witness ==
    /\ \E k \in Entered(logT) : logT[k].w = Instr_Sub
    /\ Words(logT, "pop") = <<Zero, One>>
    /\ Words(logT, "push") = <<<<65535, 65535>>>>
    /\ cpuT.stack[cpuT.sp] = <<65535, 65535>>

(***************************************************************************)
(* C19: the assertion placed after the execution loop holds on every run   *)
(* of both programs, for every program and step limit: when the loop has   *)
(* exited, state # Running or steps = steplimit.  Stated here for the step *)
(* limits from 0 up.                                                       *)
(***************************************************************************)
C19_AssertAfterLoop ==
    steplimit >= 0 =>
        /\ posS = "after_loop" => loop_assert(cpuS)
        /\ posT = "after_loop" => loop_assert(cpuT)

(***************************************************************************)
(* C20: the engine never executes more instructions than the step limit:   *)
(* for every step limit N >= 0 and every program, steps <= N in every      *)
(* reachable state of both strategies; with N = 0 no instruction is        *)
(* decoded or dispatched, nothing is printed, and the run ends with pc=0,  *)
(* sp=-1, state Running, steps=0.                                          *)
(***************************************************************************)
NothingExecuted(cpu, out, L, pos) ==
    /\ \A i \in 1 .. Len(L) : L[i].op \notin {"fetch", "imm", "dispatch", "enter"}
    /\ Prints(out) = <<>>
    /\ pos = "done" => cpu = cpu_init

C20_StepLimit ==
    steplimit >= 0 =>
        /\ cpuS.steps <= steplimit
        /\ cpuT.steps <= steplimit
        /\ steplimit = 0 =>
              /\ NothingExecuted(cpuS, outS, logS, posS)
              /\ NothingExecuted(cpuT, outT, logT, posT)

(***************************************************************************)
(* C21: program memory is never read at an index >= PROGRAM_SIZE by either *)
(* strategy, whatever the program and its jumps, offsets that wrap the     *)
(* 32-bit pc included: fetch is reached only with pc < PROGRAM_SIZE (its   *)
(* assertion never fails) and reads the word at pc, and the immediate is   *)
(* read, at pc+1, only when pc+1 < PROGRAM_SIZE.                           *)
(***************************************************************************)
ReadsInProgram(L) ==
    \A i \in 1 .. Len(L) :
        /\ L[i].op # "fetch_assert"
        /\ L[i].op = "fetch" =>
              /\ InProgram(L[i].cpu.pc)
              /\ L[i].idx = L[i].cpu.pc[2]
              /\ L[i].idx \in 0 .. PROGRAM_SIZE - 1
        /\ L[i].op = "imm" =>
              /\ InProgram(L[i].cpu.pc)
              /\ L[i].idx = L[i].cpu.pc[2] + 1
              /\ L[i].idx \in 0 .. PROGRAM_SIZE - 1
        /\ L[i].op \in {"pc_oob", "truncated"} => L[i].idx = -1

C21_ReadsInProgram == ReadsInProgram(logS) /\ ReadsInProgram(logT)

\* a backward jump has wrapped pc below zero in both runs, and neither
\* fetched at it
C21_Witness ==
    /\ \E i \in 1 .. Len(logS) : logS[i].op = "pc_oob" /\ logS[i].cpu.pc[1] = Half - 1
    /\ \E i \in 1 .. Len(logT) : logT[i].op = "pc_oob" /\ logT[i].cpu.pc[1] = Half - 1
    /\ \A i \in 1 .. Len(logS) : logS[i].op \notin {"fetch", "imm"}
    /\ \A i \in 1 .. Len(logT) : logT[i].op # "imm"

(***************************************************************************)
(* The runs under a finite step limit of at least 1, each process taking   *)
(* its next step as long as it has one.                                    *)
(***************************************************************************)
LongLimit == 50     \* a finite step limit that lets Factorial(5) halt

FiniteLimits == (1 .. MaxLimit) \cup {LongLimit}

\* Init with the step limit drawn from the finite limits
LiveInit ==
    /\ pmem \in Programs
    /\ steplimit \in FiniteLimits
    /\ rands = <<>>
    /\ cpuS = cpu_init /\ outS = <<>> /\ logS = <<>> /\ posS = "loop"
    /\ nrandS = 0 /\ exitS = -1
    /\ cpuT = cpu_init /\ decodedT = no_decoded /\ outT = <<>> /\ logT = <<>>
    /\ posT = "start" /\ nrandT = 0 /\ exitT = -1

\* the guards of SwitchedIter, ThreadedStart and ThreadedRoutine: control is
\* in front of a loop iteration, of the first dispatch, or at a service
\* routine.  Each of these actions changes steps or the position when taken.
StepEnabled ==
    \/ posS = "loop" /\ loop_cond(cpuS) /\ cpuS.steps < MaxSteps
    \/ SwitchedStopped /\ posT = "start"
    \/ posT \in Routines /\ cpuT.steps < MaxSteps

\* weak fairness of the step actions, their enabling condition written as
\* the guard: a process that can execute its next statement does so.  At
\* most one action of Next is enabled in a state, so that a step taken
\* from a state of StepEnabled is a step of these actions.
StepFair == []<>(~StepEnabled) \/ []<><<StepEnabled>>_vars

LiveSpec ==
    /\ LiveInit /\ [][Next]_vars
    /\ StepFair /\ WF_vars(SwitchedExit) /\ WF_vars(ThreadedExit)

(***************************************************************************)
(* C22: for every program and every finite step limit N >= 1, the          *)
(* execution loop of each strategy eventually exits: every iteration       *)
(* either increases steps by 1 or leaves the loop, so that the loop exits  *)
(* after at most N dispatched handlers, and the final report is reached.   *)
(***************************************************************************)
\* one iteration of the switched loop, one service routine of the threaded
\* one: steps grows by 1, or control is behind the loop, and steps changes
\* in no other way
IterationCounts ==
    /\ cpuS' # cpuS \/ posS' # posS =>
          \/ cpuS'.steps = cpuS.steps + 1 /\ posS' = "loop"
          \/ cpuS'.steps = cpuS.steps /\ posS' \in {"after_loop", "done"}
    /\ posT \in Routines /\ (cpuT' # cpuT \/ posT' # posT) =>
          \/ cpuT'.steps = cpuT.steps + 1
          \/ cpuT'.steps = cpuT.steps /\ posT' = "after_loop"
    /\ posT \notin Routines => cpuT'.steps = cpuT.steps

\* a handler is dispatched only while fewer than N steps are counted: with
\* IterationCounts, at most N handlers are dispatched
WithinLimit ==
    /\ cpuS.steps <= steplimit /\ cpuT.steps <= steplimit
    /\ posT \in Routines => cpuT.steps < steplimit
    /\ posS # "aborted" /\ posT \in Routines \cup {"start", "after_loop", "done"}

\* the report is the last thing a process has written, and it has returned
Reported(out, pos, code) ==
    /\ pos = "done" /\ code \in {0, 1}
    /\ out # <<>> /\ out[Len(out)].kind = "report"

C22_LoopExits ==
    /\ [][IterationCounts]_vars
    /\ [](WithinLimit)
    /\ <>(Reported(outS, posS, exitS) /\ Reported(outT, posT, exitT))

\* a program that jumps to itself forever is cut off by the step limit and
\* reports LongLimit steps, in both runs
C22_Witness ==
    /\ pmem.head = <<Instr_Jump, S(-2)>> /\ steplimit = LongLimit
    /\ Reported(outS, posS, exitS) /\ Reported(outT, posT, exitT)
    /\ cpuS.steps = LongLimit /\ cpuT.steps = LongLimit
    /\ cpuS.state = Cpu_Running /\ cpuT.state = Cpu_Running

====
